---- MODULE Spec2Model ----
(***************************************************************************)
(* Model of sophia_sparql_client: the SPARQL 1.1 protocol client           *)
(* (src/src/lib.rs) and its JSON results document (src/src/results.rs).    *)
(*                                                                         *)
(* Strings are TLA+ strings when they are only compared, and sequences of  *)
(* string pieces when the code cuts or concatenates them (the Content-Type *)
(* header, the message of Error::Unsupported).                             *)
(* Option<T> is a sequence: <<>> for None, <<v>> for Some(v).              *)
(***************************************************************************)
EXTENDS Integers, Sequences, FiniteSets, TLC

VARIABLES client, pc, request, resp, outcome, doc, items, ends, posts, decoded, wire, converted

vars == <<client, pc, request, resp, outcome, doc, items, ends, posts, decoded, wire, converted>>

\* ---------------------------------------------------------------- bounds
MaxVars == 2
MaxRows == 2
MaxEnds == 2

\* ------------------------------------------------------------- options
None == <<>>
Some(v) == <<v>>
IsSome(o) == Len(o) = 1

\* ------------------------------------------------- strings of the model
Strs == {"tag:a", "en", "a b", ""}
OptStr == {None} \cup {Some(s) : s \in Strs}

\* sophia::ns::xsd::string
xsd_string == "http://www.w3.org/2001/XMLSchema#string"

\* Validity checks made by the term constructors of sophia::term that
\* try_from calls: "a b" holds a space and is no IRI reference, no language
\* tag and no blank node label; "" is an (empty, relative) IRI reference
\* but no tag and no label; "tag:a" holds a colon, which neither a language
\* tag nor a blank node label may.
is_valid_iri(s) == s # "a b"
is_valid_lang(s) == s = "en"
is_valid_bnode(s) == s = "en"

\* ------------------------------------------------------------- errors
NoError == [variant |-> "", msg |-> <<>>]
TermError(what, s) == [variant |-> "Term", msg |-> <<what, s>>]

\* ----------------------------------------------- wire terms (JSON objects)
\* {"type": .., "value": .., "datatype": .., "xml:lang": ..}; a member that
\* is missing is None.
WireTypes == {"uri", "bnode", "literal", "triple"}
WireTerms == [type : WireTypes, value : OptStr, datatype : OptStr, lang : OptStr]

\* results::Term with results::Literal flattened into it
NoTerm == [variant |-> "", value |-> "", tag |-> ""]
Bnode(value) == [variant |-> "Bnode", value |-> value, tag |-> ""]
Uri(value) == [variant |-> "Uri", value |-> value, tag |-> ""]
Datatype(value, datatype) == [variant |-> "Datatype", value |-> value, tag |-> datatype]
Lang(value, lang) == [variant |-> "Lang", value |-> value, tag |-> lang]
Simple(value) == [variant |-> "Simple", value |-> value, tag |-> ""]

\* serde, #[serde(untagged)] enum Literal: the variants are tried in
\* declaration order, and members a variant does not name are ignored.
DeserializeLiteralLangFirst(w) ==
    IF IsSome(w.value) /\ IsSome(w.lang)
    THEN [ok |-> TRUE, term |-> Lang(w.value[1], w.lang[1])]
    ELSE IF IsSome(w.value) /\ IsSome(w.datatype)
    THEN [ok |-> TRUE, term |-> Datatype(w.value[1], w.datatype[1])]
    ELSE IF IsSome(w.value)
    THEN [ok |-> TRUE, term |-> Simple(w.value[1])]
    ELSE [ok |-> FALSE, term |-> NoTerm]

DeserializeLiteral(w) ==
    IF IsSome(w.value) /\ IsSome(w.datatype)
    THEN [ok |-> TRUE, term |-> Datatype(w.value[1], w.datatype[1])]
    ELSE IF IsSome(w.value) /\ IsSome(w.lang)
    THEN [ok |-> TRUE, term |-> Lang(w.value[1], w.lang[1])]
    ELSE IF IsSome(w.value)
    THEN [ok |-> TRUE, term |-> Simple(w.value[1])]
    ELSE [ok |-> FALSE, term |-> NoTerm]

\* serde, #[serde(tag = "type")] enum Term
DeserializeTerm(w) ==
    CASE w.type = "bnode" ->
           IF IsSome(w.value) THEN [ok |-> TRUE, term |-> Bnode(w.value[1])]
           ELSE [ok |-> FALSE, term |-> NoTerm]
      [] w.type = "literal" -> DeserializeLiteral(w)
      [] w.type = "uri" ->
           IF IsSome(w.value) THEN [ok |-> TRUE, term |-> Uri(w.value[1])]
           ELSE [ok |-> FALSE, term |-> NoTerm]
      [] OTHER -> [ok |-> FALSE, term |-> NoTerm]

\* ------------------------------------------------ sophia::term::BoxTerm
NoBoxTerm == [kind |-> "", value |-> "", datatype |-> None, lang |-> None]
Iri(s) == [kind |-> "Iri", value |-> s, datatype |-> None, lang |-> None]
BlankNode(s) == [kind |-> "BlankNode", value |-> s, datatype |-> None, lang |-> None]
LiteralDt(s, dt) == [kind |-> "Literal", value |-> s, datatype |-> Some(dt), lang |-> None]
LiteralLang(s, l) == [kind |-> "Literal", value |-> s, datatype |-> None, lang |-> Some(l)]

TermOk(t) == [ok |-> TRUE, term |-> t, err |-> NoError]
TermErr(e) == [ok |-> FALSE, term |-> NoBoxTerm, err |-> e]

new_iri(s) == IF is_valid_iri(s) THEN TermOk(Iri(s)) ELSE TermErr(TermError("InvalidIri", s))
new_bnode(s) == IF is_valid_bnode(s) THEN TermOk(BlankNode(s)) ELSE TermErr(TermError("InvalidBlankNodeId", s))
new_literal_lang(s, l) ==
    IF is_valid_lang(l) THEN TermOk(LiteralLang(s, l)) ELSE TermErr(TermError("InvalidLanguageTag", l))
new_literal_dt(s, dt) == TermOk(LiteralDt(s, dt))

\* impl TryFrom<Term> for BoxTerm
try_from(other) ==
    CASE other.variant = "Bnode" -> new_bnode(other.value)
      [] other.variant = "Simple" -> new_literal_dt(other.value, xsd_string)
      [] other.variant = "Datatype" ->
           IF new_iri(other.tag).ok
           THEN new_literal_dt(other.value, other.tag)
           ELSE TermErr(new_iri(other.tag).err)
      [] other.variant = "Lang" -> new_literal_lang(other.value, other.tag)
      [] OTHER -> new_iri(other.value)

\* ---------------------------------------------- JSON results documents
Keys == {"x", "y"}

SeqsUpTo(S, n) == UNION {[1..k -> S] : k \in 0..n}

\* The wire terms the binding rows of the model are made of: an IRI, a
\* "uri" whose value is no IRI, and a simple literal with an empty value.
UriGood == [type |-> "uri", value |-> Some("tag:a"), datatype |-> None, lang |-> None]
UriBad == [type |-> "uri", value |-> Some("a b"), datatype |-> None, lang |-> None]
LitEmpty == [type |-> "literal", value |-> Some(""), datatype |-> None, lang |-> None]
RowTerms == {UriGood, UriBad, LitEmpty}

\* A binding row of the body: a JSON object, name -> wire term
WireRows == UNION {[K -> RowTerms] : K \in SUBSET Keys}

\* The "head" member: missing, or an object with or without "vars"
NoHead == [present |-> FALSE, hasVars |-> FALSE, vars |-> <<>>]
HeadMembers ==
    {NoHead, [present |-> TRUE, hasVars |-> FALSE, vars |-> <<>>]}
    \cup {[present |-> TRUE, hasVars |-> TRUE, vars |-> v] : v \in SeqsUpTo(Keys, MaxVars)}

\* The "boolean" member: missing, a JSON boolean, or a JSON string
BooleanMembers == {"absent", "true", "false", "string"}

\* The "results" member: missing, or an object with "bindings"
NoResults == [present |-> FALSE, bindings |-> <<>>]
ResultsMembers ==
    {NoResults} \cup {[present |-> TRUE, bindings |-> b] : b \in SeqsUpTo(WireRows, MaxRows)}

\* A response body: text that is no JSON, or a JSON object
TextBody == [kind |-> "text", head |-> NoHead, boolean |-> "absent", results |-> NoResults]
JsonBodies == [kind : {"object"}, head : HeadMembers, boolean : BooleanMembers, results : ResultsMembers]

\* results::BindingsDocument, with the rows' wire terms deserialized
EmptyDoc == [head |-> [vars |-> <<>>], results |-> [bindings |-> <<>>]]

DeserializeRow(row) == [k \in DOMAIN row |-> DeserializeTerm(row[k]).term]

RowDeserializes(row) == \A k \in DOMAIN row : DeserializeTerm(row[k]).ok

BindingsShape(body) ==
    /\ body.head.present
    /\ body.head.hasVars
    /\ body.results.present
    /\ \A i \in 1..Len(body.results.bindings) : RowDeserializes(body.results.bindings[i])

BooleanShape(body) ==
    /\ body.head.present
    /\ body.boolean \in {"true", "false"}

DocOf(body) ==
    [head |-> [vars |-> body.head.vars],
     results |-> [bindings |-> [i \in 1..Len(body.results.bindings) |->
                                   DeserializeRow(body.results.bindings[i])]]]

NoJson == [ok |-> FALSE, variant |-> "", boolean |-> FALSE, doc |-> EmptyDoc]

\* serde, #[serde(untagged)] enum ResultsDocument, as Response::into_json
\* reads it: the variants are tried in declaration order, Boolean first.
into_json_bindings_first(body) ==
    IF body.kind # "object" THEN NoJson
    ELSE IF BindingsShape(body)
    THEN [ok |-> TRUE, variant |-> "Bindings", boolean |-> FALSE, doc |-> DocOf(body)]
    ELSE IF BooleanShape(body)
    THEN [ok |-> TRUE, variant |-> "Boolean", boolean |-> (body.boolean = "true"), doc |-> EmptyDoc]
    ELSE NoJson

into_json(body) ==
    IF body.kind # "object" THEN NoJson
    ELSE IF BooleanShape(body)
    THEN [ok |-> TRUE, variant |-> "Boolean", boolean |-> (body.boolean = "true"), doc |-> EmptyDoc]
    ELSE IF BindingsShape(body)
    THEN [ok |-> TRUE, variant |-> "Bindings", boolean |-> FALSE, doc |-> DocOf(body)]
    ELSE NoJson

\* ------------------------------------------------- the bindings sequence
\* a lookup that leaves the entry in the map (hm.get)
Keep(hm, key) == hm

Remove(hm, key) == [k \in (DOMAIN hm) \ {key} |-> hm[k]]

\* the for loop of pop_binding, from the i-th head variable on
RECURSIVE pop_loop(_, _, _, _)
pop_loop(headvars, i, hm, v) ==
    IF i > Len(headvars) THEN [ok |-> TRUE, row |-> v, err |-> NoError]
    ELSE IF headvars[i] \notin DOMAIN hm
    THEN pop_loop(headvars, i + 1, hm, Append(v, None))
    ELSE IF try_from(hm[headvars[i]]).ok
    THEN pop_loop(headvars, i + 1, Remove(hm, headvars[i]),
                  Append(v, Some(try_from(hm[headvars[i]]).term)))
    ELSE [ok |-> FALSE, row |-> <<>>, err |-> try_from(hm[headvars[i]]).err]

\* pop_binding taking the last row instead of the first
pop_binding_lifo(d) ==
    [doc |-> [d EXCEPT !.results.bindings = SubSeq(@, 1, Len(@) - 1)],
     item |-> pop_loop(d.head.vars, 1, d.results.bindings[Len(d.results.bindings)], <<>>)]

\* pop_binding draining the head's variables as it walks them
pop_binding_draining_head(d) ==
    [doc |-> [d EXCEPT !.results.bindings = Tail(@), !.head.vars = <<>>],
     item |-> pop_loop(d.head.vars, 1, Head(d.results.bindings), <<>>)]

\* pop_binding converting every row that is left before it gives one out
pop_binding_eager(d) ==
    [doc |-> [d EXCEPT !.results.bindings = Tail(@)],
     item |-> IF \E i \in 1..Len(d.results.bindings) :
                    ~pop_loop(d.head.vars, 1, d.results.bindings[i], <<>>).ok
              THEN [ok |-> FALSE, row |-> <<>>, err |-> TermError("InvalidIri", "")]
              ELSE pop_loop(d.head.vars, 1, Head(d.results.bindings), <<>>)]

\* pop_binding taking the row out of the queue only once it converted
pop_binding_keep_failed(d) ==
    [doc |-> IF pop_loop(d.head.vars, 1, Head(d.results.bindings), <<>>).ok
             THEN [d EXCEPT !.results.bindings = Tail(@)]
             ELSE d,
     item |-> pop_loop(d.head.vars, 1, Head(d.results.bindings), <<>>)]

\* BindingsDocument::pop_binding, called on a document with a row left
pop_binding(d) ==
    [doc |-> [d EXCEPT !.results.bindings = Tail(@)],
     item |-> pop_loop(d.head.vars, 1, Head(d.results.bindings), <<>>)]

\* impl Iterator for Bindings: next
next(d) ==
    IF d.results.bindings = <<>>
    THEN [doc |-> d, item |-> None]
    ELSE [doc |-> pop_binding(d).doc, item |-> Some(pop_binding(d).item)]

\* impl SparqlBindings for Bindings: variables
variables(d) == [i \in 1..Len(d.head.vars) |-> d.head.vars[i]]

\* ------------------------------------------------------ the HTTP exchange
\* What Agent::post(..).send_string(..) comes back with: a transport
\* failure, a 4xx/5xx status (both Err(ureq::Error)), or a response with
\* its Content-Type header (None when the response has none) and its body.
JsonType == "application/sparql-results+json"
XmlType == "application/sparql-results+xml"
TripleTypes == {"text/turtle", "application/n-triples", "application/rdf+xml"}
RecognizedTypes == {JsonType, XmlType} \cup TripleTypes
OtherTypes == {"text/plain", "Text/Turtle", "application/json"}
BaseTypes == RecognizedTypes \cup OtherTypes
Params == {<<>>, <<";", " charset=utf-8">>}

AskBody ==
    [kind |-> "object", head |-> [present |-> TRUE, hasVars |-> FALSE, vars |-> <<>>],
     boolean |-> "false", results |-> NoResults]
SelectBody ==
    [kind |-> "object", head |-> [present |-> TRUE, hasVars |-> TRUE, vars |-> <<"x">>],
     boolean |-> "absent",
     results |-> [present |-> TRUE, bindings |-> <<[k \in {"x"} |-> UriGood]>>]]
SampleBodies == {TextBody, AskBody, SelectBody}

\* A bindings document whose second row holds an object that is no term
\* object: its "type" is none of uri, bnode, literal
TripleTerm == [type |-> "triple", value |-> Some("tag:a"), datatype |-> None, lang |-> None]
BadTermBody ==
    [kind |-> "object", head |-> [present |-> TRUE, hasVars |-> TRUE, vars |-> <<"x">>],
     boolean |-> "absent",
     results |-> [present |-> TRUE,
                  bindings |-> <<[k \in {"x"} |-> UriGood], [k \in {"x"} |-> TripleTerm]>>]]

TransportFailure == [kind |-> "Transport", header |-> None, body |-> TextBody]
StatusFailure == [kind |-> "Status", header |-> None, body |-> TextBody]
Response(header, body) == [kind |-> "Response", header |-> header, body |-> body]

Exchanges ==
    {TransportFailure, StatusFailure}
    \cup {Response(Some(<<JsonType>>), b) : b \in JsonBodies \cup {TextBody, BadTermBody}}
    \cup {Response(Some(<<t>> \o p), b) : t \in BaseTypes, p \in Params, b \in SampleBodies}
    \cup {Response(None, b) : b \in SampleBodies}

NoExchange == [kind |-> "", header |-> None, body |-> TextBody]

\* ureq: Response::content_type, the header up to its first ';', and
\* "text/plain" when the response has no Content-Type header
DEFAULT_CONTENT_TYPE == <<"text/plain">>

RECURSIVE find(_, _, _)
find(h, c, i) ==
    IF i > Len(h) THEN None
    ELSE IF h[i] = c THEN Some(i)
    ELSE find(h, c, i + 1)

content_type_whole(r) ==
    IF IsSome(r.header) THEN r.header[1] ELSE DEFAULT_CONTENT_TYPE

content_type(r) ==
    IF IsSome(r.header)
    THEN IF IsSome(find(r.header[1], ";", 1))
         THEN SubSeq(r.header[1], 1, find(r.header[1], ";", 1)[1] - 1)
         ELSE r.header[1]
    ELSE DEFAULT_CONTENT_TYPE

\* ------------------------------------------------------------ the client
Endpoint == "http://localhost:8080/sparql"

DEFAULT_ACCEPT ==
    <<"application/sparql-results+json", ",", "application/sparql-results+xml", ";q=0.8", ",",
      "text/turtle", ",", "application/n-triples", ";q=0.9", ",", "application/rdf+xml", ";q=0.8">>

\* SparqlClient::new
new(endpoint) == [endpoint |-> endpoint, accept |-> None]

\* SparqlClient::with_accept
with_accept(self, a) == [self EXCEPT !.accept = Some(a)]

\* SparqlClient::accept
\* accept forgetting the value with_accept stored
accept_default_only(self) == DEFAULT_ACCEPT

accept(self) == IF IsSome(self.accept) THEN self.accept[1] ELSE DEFAULT_ACCEPT

\* The request query sends: agent.post(&self.endpoint).set("Accept", ..)
\* .set("Content-type", ..).send_string(query text)
QueryText == "SELECT * {}"
NoRequest == [url |-> "", accept |-> <<>>, content_type |-> "", body |-> ""]
post(self, q) ==
    [url |-> self.endpoint, accept |-> accept(self),
     content_type |-> "application/sparql-query", body |-> q]

\* ------------------------------------------------------ outcomes of query
NoOutcome == [tag |-> "", boolean |-> FALSE, parser |-> "", err |-> NoError]
OkBoolean(b) == [tag |-> "Boolean", boolean |-> b, parser |-> "", err |-> NoError]
OkBindings == [tag |-> "Bindings", boolean |-> FALSE, parser |-> "", err |-> NoError]
OkTriples(parser) == [tag |-> "Triples", boolean |-> FALSE, parser |-> parser, err |-> NoError]
Err(e) == [tag |-> "Err", boolean |-> FALSE, parser |-> "", err |-> e]
\* todo!(..) unwinds: query returns nothing to its caller
Panic(msg) == [tag |-> "Panic", boolean |-> FALSE, parser |-> "", err |-> [variant |-> "panic", msg |-> msg]]

Http(what) == [variant |-> "Http", msg |-> <<what>>]
Io(what) == [variant |-> "Io", msg |-> <<what>>]

\* Error::Unsupported(format!("unsupported content-type: {0}", ctype))
Unsupported(ctype) == [variant |-> "Unsupported", msg |-> <<"unsupported content-type: ">> \o ctype]

\* SparqlClient::wrap_triple_source: always Ok, the parser runs lazily
wrap_triple_source(parser) == OkTriples(parser)

Returned(o, d, dec) == [outcome |-> o, doc |-> d, posts |-> 1, decoded |-> dec]

\* The match on resp.content_type() in query
dispatch_json_fallback(r) ==
    CASE content_type(r) = <<JsonType>> \/ content_type(r) \notin {<<t>> : t \in RecognizedTypes} ->
           IF ~into_json(r.body).ok THEN Returned(Err(Io("json")), EmptyDoc, TRUE)
           ELSE IF into_json(r.body).variant = "Boolean"
           THEN Returned(OkBoolean(into_json(r.body).boolean), EmptyDoc, TRUE)
           ELSE Returned(OkBindings, into_json(r.body).doc, TRUE)
      [] content_type(r) = <<XmlType>> ->
           Returned(Panic(<<"not yet implemented: XML bindings not supported yet">>), EmptyDoc, FALSE)
      [] content_type(r) = <<"text/turtle">> -> Returned(wrap_triple_source("turtle"), EmptyDoc, TRUE)
      [] content_type(r) = <<"application/n-triples">> -> Returned(wrap_triple_source("nt"), EmptyDoc, TRUE)
      [] OTHER -> Returned(wrap_triple_source("xml"), EmptyDoc, TRUE)

dispatch(r) ==
    CASE content_type(r) = <<JsonType>> ->
           IF ~into_json(r.body).ok THEN Returned(Err(Io("json")), EmptyDoc, TRUE)
           ELSE IF into_json(r.body).variant = "Boolean"
           THEN Returned(OkBoolean(into_json(r.body).boolean), EmptyDoc, TRUE)
           ELSE Returned(OkBindings, into_json(r.body).doc, TRUE)
      [] content_type(r) = <<XmlType>> ->
           Returned(Panic(<<"not yet implemented: XML bindings not supported yet">>), EmptyDoc, FALSE)
      [] content_type(r) = <<"text/turtle">> -> Returned(wrap_triple_source("turtle"), EmptyDoc, TRUE)
      [] content_type(r) = <<"application/n-triples">> -> Returned(wrap_triple_source("nt"), EmptyDoc, TRUE)
      [] content_type(r) = <<"application/rdf+xml">> -> Returned(wrap_triple_source("xml"), EmptyDoc, TRUE)
      [] OTHER -> Returned(Err(Unsupported(content_type(r))), EmptyDoc, FALSE)

\* impl SparqlDataset for SparqlClient: query, given what the one exchange
\* with the endpoint comes back with
query(self, exchange) ==
    IF exchange.kind = "Transport" THEN Returned(Err(Http("transport")), EmptyDoc, FALSE)
    ELSE IF exchange.kind = "Status" THEN Returned(Err(Http("status")), EmptyDoc, FALSE)
    ELSE dispatch(exchange)

\* ---------------------------------------------------------------- actions
NoWire == [type |-> "", value |-> None, datatype |-> None, lang |-> None]
NoConverted == [done |-> FALSE, parsed |-> FALSE, ok |-> FALSE, term |-> NoBoxTerm, err |-> NoError]

Idle ==
    /\ pc = "idle"
    /\ request = NoRequest
    /\ resp = NoExchange
    /\ outcome = NoOutcome
    /\ doc = EmptyDoc
    /\ items = <<>>
    /\ ends = 0
    /\ posts = 0
    /\ decoded = FALSE

Init ==
    /\ client \in {new(Endpoint), with_accept(new(Endpoint), <<"application/n-triples">>)}
    /\ Idle
    /\ wire = NoWire
    /\ converted = NoConverted

\* The caller calls query; the endpoint answers with any exchange.
CallQuery ==
    /\ pc = "idle"
    /\ request' = post(client, QueryText)
    /\ \E exchange \in Exchanges :
         LET r == query(client, exchange) IN
         /\ resp' = exchange
         /\ outcome' = r.outcome
         /\ doc' = r.doc
         /\ posts' = r.posts
         /\ decoded' = r.decoded
         /\ pc' = IF r.outcome.tag = "Panic" THEN "panicked" ELSE "returned"
    /\ UNCHANGED <<client, items, ends, wire, converted>>

\* The caller calls next on the bindings it was given.
CallNext ==
    /\ pc = "returned"
    /\ outcome.tag = "Bindings"
    /\ LET n == next(doc) IN
         /\ doc' = n.doc
         /\ IF IsSome(n.item)
            THEN items' = Append(items, n.item[1]) /\ ends' = ends
            ELSE ends < MaxEnds /\ ends' = ends + 1 /\ items' = items
    /\ UNCHANGED <<client, pc, request, resp, outcome, posts, decoded, wire, converted>>

\* The caller lets go of the result and is ready for another query.
Drop ==
    /\ pc = "returned"
    /\ pc' = "idle"
    /\ request' = NoRequest
    /\ resp' = NoExchange
    /\ outcome' = NoOutcome
    /\ doc' = EmptyDoc
    /\ items' = <<>>
    /\ ends' = 0
    /\ posts' = 0
    /\ decoded' = FALSE
    /\ UNCHANGED <<client, wire, converted>>

Next == CallQuery \/ CallNext \/ Drop

Spec == Init /\ [][Next]_vars

\* ------------------------------------------- the term adapter on its own
\* A wire term is deserialized and, when that succeeds, converted.
InitTerm ==
    /\ client = new(Endpoint)
    /\ Idle
    /\ wire \in WireTerms
    /\ converted = NoConverted

Convert ==
    /\ ~converted.done
    /\ converted' =
         IF DeserializeTerm(wire).ok
         THEN [done |-> TRUE, parsed |-> TRUE,
               ok |-> try_from(DeserializeTerm(wire).term).ok,
               term |-> try_from(DeserializeTerm(wire).term).term,
               err |-> try_from(DeserializeTerm(wire).term).err]
         ELSE [done |-> TRUE, parsed |-> FALSE, ok |-> FALSE, term |-> NoBoxTerm, err |-> NoError]
    /\ UNCHANGED <<client, pc, request, resp, outcome, doc, items, ends, posts, decoded, wire>>

NextTerm == Convert

SpecTerm == InitTerm /\ [][NextTerm]_vars

\* ------------------------------------------------------------ properties
\* What the claims are stated over: the response the call was answered
\* with, read as it came over the wire.
Answered == pc # "idle" /\ resp.kind = "Response"
HasType(t) == \E p \in Params : resp.header = Some(<<t>> \o p)
GaveBindings == pc = "returned" /\ outcome.tag = "Bindings"
WireHead == resp.body.head.vars
WireBindings == resp.body.results.bindings

\* Every member of every row of the body is a term object: its "type" is
\* uri, bnode or literal and it has a "value"
TermObjects ==
    \A i \in 1..Len(WireBindings) : \A k \in DOMAIN WireBindings[i] :
        WireBindings[i][k].type \in {"uri", "bnode", "literal"} /\ IsSome(WireBindings[i][k].value)

\* The BoxTerm a wire term stands for, when it stands for one
Adapted(w) == try_from(DeserializeTerm(w).term)

\* name is looked up in the row for the first time at position j of the head
FirstLookup(j) == \A j2 \in 1..(j - 1) : WireHead[j2] # WireHead[j]

\* A wire row holds, under a name of the head, a term that is no RDF term
Malformed(wrow) == \E j \in 1..Len(WireHead) : WireHead[j] \in DOMAIN wrow /\ ~Adapted(wrow[WireHead[j]]).ok

\* C1: a bindings document with n head variables and k rows yields exactly
\* k items before the end of the sequence, the i-th item is made from the
\* i-th row of the document, and every item that is a row has n positions
\* laid out in head order.
C1_KItemsInOrder ==
    GaveBindings =>
        /\ Len(items) + Len(doc.results.bindings) = Len(WireBindings)
        /\ ends > 0 => Len(items) = Len(WireBindings)
        /\ \A i \in 1..Len(doc.results.bindings) :
             doc.results.bindings[i] = DeserializeRow(WireBindings[Len(items) + i])
        /\ \A i \in 1..Len(items) :
             /\ items[i].ok <=> ~Malformed(WireBindings[i])
             /\ items[i].ok =>
                  /\ Len(items[i].row) = Len(WireHead)
                  /\ \A j \in 1..Len(WireHead) :
                       items[i].row[j] =
                         IF WireHead[j] \in DOMAIN WireBindings[i] /\ FirstLookup(j)
                         THEN Some(Adapted(WireBindings[i][WireHead[j]]).term)
                         ELSE None

C1_Witness ==
    /\ GaveBindings
    /\ ends > 0
    /\ Len(WireHead) = 2
    /\ Len(items) = 2
    /\ items[1].ok /\ items[2].ok
    /\ items[1].row # items[2].row

\* C2: in a produced row the position of head variable x is None if and
\* only if the row's map has no key x.
C2_NoneIffNoKey ==
    GaveBindings =>
        \A i \in 1..Len(items) :
            items[i].ok =>
                \A j \in 1..Len(items[i].row) :
                    (items[i].row[j] = None) <=> (WireHead[j] \notin DOMAIN WireBindings[i])

\* C3: a wire literal is resolved datatype > language > neither: with a
\* datatype member it becomes a literal of that datatype, whether or not
\* it has xml:lang too, and nothing but the datatype can make it fail;
\* else with xml:lang a language-tagged literal; else a literal of
\* datatype xsd:string, which cannot fail.
C3_LiteralPriority ==
    (converted.done /\ wire.type = "literal") =>
        /\ converted.parsed <=> IsSome(wire.value)
        /\ converted.parsed =>
            IF IsSome(wire.datatype)
            THEN /\ converted.ok <=> is_valid_iri(wire.datatype[1])
                 /\ converted.ok => converted.term = LiteralDt(wire.value[1], wire.datatype[1])
            ELSE IF IsSome(wire.lang)
            THEN /\ converted.ok <=> is_valid_lang(wire.lang[1])
                 /\ converted.ok => converted.term = LiteralLang(wire.value[1], wire.lang[1])
            ELSE /\ converted.ok
                 /\ converted.term = LiteralDt(wire.value[1], xsd_string)

C3_Witness ==
    /\ converted.done
    /\ wire.type = "literal"
    /\ IsSome(wire.datatype) /\ IsSome(wire.lang)
    /\ converted.ok
    /\ converted.term.datatype = wire.datatype

\* C4: when the content type is application/sparql-results+xml, query
\* returns an unsupported-content-type error to its caller.
C4_XmlReturnsUnsupported ==
    (Answered /\ HasType(XmlType)) =>
        /\ pc = "returned"
        /\ outcome.tag = "Err"
        /\ outcome.err.variant = "Unsupported"

\* C5: when the base content type is none of the five recognized media
\* types, query returns Error::Unsupported with the message "unsupported
\* content-type: " followed by exactly that content type, and the body is
\* not decoded, as JSON or as anything.
C5_UnrecognizedType ==
    /\ \A t \in OtherTypes :
         (Answered /\ HasType(t)) =>
             /\ outcome = Err([variant |-> "Unsupported", msg |-> <<"unsupported content-type: ", t>>])
             /\ ~decoded
             /\ doc = EmptyDoc
    /\ (Answered /\ resp.header = None) =>
             /\ outcome = Err([variant |-> "Unsupported", msg |-> <<"unsupported content-type: ", "text/plain">>])
             /\ ~decoded
             /\ doc = EmptyDoc

C5_Witness ==
    /\ Answered
    /\ resp.header = Some(<<"application/json", ";", " charset=utf-8">>)
    /\ resp.body = SelectBody
    /\ outcome.tag = "Err"

C7_VariablesUnchanged ==
    GaveBindings => variables(doc) = WireHead

C7_Witness ==
    /\ GaveBindings
    /\ ends > 0
    /\ Len(items) = 2
    /\ ~items[1].ok
    /\ items[2].ok
    /\ variables(doc) = <<"y", "x">>

\* C8: a malformed term in row i is reported, as a term error, by the
\* next() call that produces row i and by no other: the calls for the
\* rows before it give their rows whatever comes later, and the document
\* is decoded and given to the caller all the same.
C8_ErrorOnlyAtItsRow ==
    /\ \A i \in 1..Len(items) :
         /\ items[i].ok <=> ~Malformed(WireBindings[i])
         /\ ~items[i].ok => items[i].err.variant = "Term"
    /\ (Answered /\ HasType(JsonType) /\ resp.body.kind = "object"
          /\ resp.body.boolean = "absent" /\ resp.body.head.hasVars /\ resp.body.results.present
          /\ TermObjects)
       => outcome = OkBindings

C8_Witness ==
    /\ GaveBindings
    /\ Len(WireBindings) = 2
    /\ ~Malformed(WireBindings[1])
    /\ Malformed(WireBindings[2])
    /\ Len(items) = 2
    /\ items[1].ok
    /\ ~items[2].ok

\* C9: the result variant follows from the base content type alone, the
\* header's parameters ignored: application/sparql-results+json gives
\* Boolean or Bindings, text/turtle, application/n-triples and
\* application/rdf+xml give Triples, and no other content type gives a
\* result.
ParserOf(t) ==
    CASE t = "text/turtle" -> "turtle"
      [] t = "application/n-triples" -> "nt"
      [] t = "application/rdf+xml" -> "xml"

IsResult(o) == o.tag \in {"Boolean", "Bindings", "Triples"}

C9_VariantByBaseType ==
    /\ Answered =>
         \A t \in BaseTypes :
             HasType(t) =>
                 /\ t = JsonType => outcome.tag \in {"Boolean", "Bindings", "Err"}
                 /\ (t = JsonType /\ resp.body = AskBody) => outcome = OkBoolean(FALSE)
                 /\ (t = JsonType /\ resp.body = SelectBody) => outcome = OkBindings
                 /\ t \in TripleTypes => outcome = OkTriples(ParserOf(t))
                 /\ t \notin {JsonType} \cup TripleTypes => ~IsResult(outcome)
    /\ (pc # "idle" /\ (resp.kind # "Response" \/ resp.header = None)) => ~IsResult(outcome)

C9_Witness ==
    /\ Answered
    /\ resp.header = Some(<<"text/turtle", ";", " charset=utf-8">>)
    /\ outcome = OkTriples("turtle")

\* C10: every query() call makes exactly one HTTP exchange and ends in
\* exactly one outcome, a typed result or an error; a transport failure
\* is returned as Error::Http before any decoding.
C10_OneExchangeOneOutcome ==
    pc # "idle" =>
        /\ posts = 1
        /\ pc = "returned"
        /\ IsResult(outcome) \/ outcome.tag = "Err"
        /\ resp.kind = "Transport" => (outcome = Err(Http("transport")) /\ ~decoded)

\* C11: the Accept header query() sends is the value given to
\* with_accept when one was given, and otherwise the default list, which
\* names the five supported media types; the request goes to the client's
\* endpoint; and no step, through any sequence of queries, changes the
\* client's Accept value or its endpoint.
C11_AcceptSentAndKept ==
    [][/\ client'.accept = client.accept
       /\ client'.endpoint = client.endpoint
       /\ (pc = "idle" /\ pc' # "idle") =>
            /\ request'.url = client.endpoint
            /\ IsSome(client.accept) => request'.accept = client.accept[1]
            /\ ~IsSome(client.accept) =>
                 /\ request'.accept = DEFAULT_ACCEPT
                 /\ \A t \in RecognizedTypes : \E i \in 1..Len(request'.accept) : request'.accept[i] = t]_vars

C11_Witness ==
    /\ pc = "returned"
    /\ client.accept = Some(<<"application/n-triples">>)
    /\ request.accept = <<"application/n-triples">>
    /\ request.url = Endpoint
    /\ outcome = OkTriples("nt")

\* C12: a next() call on a queue that is not empty takes exactly one row,
\* the first, out of it and gives exactly one item, a row or a term error
\* alike, so the rows behind a failed row come next and in order; a next()
\* call on an empty queue signals the end of the sequence and leaves the
\* queue empty and the items as they are; the end is never signalled while
\* rows are left.
C12_OneRowPerCall ==
    [][/\ ends' > 0 => doc'.results.bindings = <<>>
       /\ (pc = "returned" /\ pc' = "returned") =>
            IF doc.results.bindings # <<>>
            THEN /\ doc'.results.bindings = Tail(doc.results.bindings)
                 /\ Len(items') = Len(items) + 1
                 /\ SubSeq(items', 1, Len(items)) = items
                 /\ ends' = ends
            ELSE /\ doc'.results.bindings = <<>>
                 /\ items' = items
                 /\ ends' = ends + 1]_vars

C12_Witness ==
    /\ GaveBindings
    /\ Len(WireBindings) = 2
    /\ Len(items) = 2
    /\ ~items[1].ok
    /\ items[2].ok
    /\ doc.results.bindings = <<>>
    /\ ends = 2

\* C13: a head that names a variable more than once is decoded all the
\* same; in a produced row a position is Some(term) exactly where its
\* name is bound by the row and stands in the head for the first time, and
\* None at every later occurrence of the name; so a row has as many
\* Some(term) as it has keys that the head names, and keys the head does
\* not name are in no produced row.
Positions(row) == {j \in 1..Len(row) : IsSome(row[j])}
HeadNames == {WireHead[j] : j \in 1..Len(WireHead)}

C13_FirstOccurrenceOnly ==
    /\ (Answered /\ HasType(JsonType) /\ resp.body.kind = "object" /\ resp.body.boolean = "absent"
          /\ resp.body.head.hasVars /\ resp.body.results.present /\ TermObjects
          /\ Cardinality(HeadNames) < Len(WireHead))
       => outcome = OkBindings
    /\ GaveBindings =>
         \A i \in 1..Len(items) :
             items[i].ok =>
                 /\ \A j \in 1..Len(items[i].row) :
                      IsSome(items[i].row[j]) <=> (WireHead[j] \in DOMAIN WireBindings[i] /\ FirstLookup(j))
                 /\ Cardinality(Positions(items[i].row)) = Cardinality(HeadNames \cap DOMAIN WireBindings[i])

C13_Witness ==
    /\ GaveBindings
    /\ WireHead = <<"x", "x">>
    /\ Len(items) = 1
    /\ DOMAIN WireBindings[1] = {"x", "y"}
    /\ items[1].ok
    /\ IsSome(items[1].row[1])
    /\ items[1].row[2] = None

====
